---- MODULE Spec2Model ----
(***************************************************************************)
(* A model of news6.py: the keyword news dashboard.                        *)
(*                                                                         *)
(* Texts are sequences of characters.  Hangul syllables are written in     *)
(* romanised form, one string per syllable ("seong","gong" for the word    *)
(* seong-gong), because the module is restricted to ASCII.  The labels the *)
(* program returns are romanised the same way.                             *)
(***************************************************************************)
EXTENDS Integers, Sequences, FiniteSets, TLC

VARIABLES
    pc,          \* position of the script or of a single call: "idle",
                 \* "loop" (inside the collection loop), "call", "done"
    arg,         \* the arguments of the call or of the collection run
    out,         \* the value the call returned; df_list and the calls so
                 \* far of a collection run
    news_df,     \* st.session_state['news_df']: the ArticleSet of the session
    bookmarks,   \* st.session_state['bookmarks']
    start_date,  \* sidebar start date (NoDate when unset)
    end_date,    \* sidebar end date (NoDate when unset)
    cache,       \* st.cache_data store of fetch_news: key -> [at, value]
    clock,       \* seconds since the session began
    shown,       \* the rows the last script run displayed (filtered news_df)
    pandas,      \* the version of pandas installed (None where no frame is
                 \* parsed)
    raw_df,      \* history: the ArticleSet as the last collection run stored
                 \* it, its date column still the text of the feed
    fetched,     \* history kept by SpecCache: per argument triple, the last
                 \* request sent
    last         \* history: what the last script run or call did

vars == <<pc, arg, out, news_df, bookmarks, start_date, end_date, cache,
          clock, shown, pandas, raw_df, fetched, last>>

None == "None"

\* the value of a sidebar date that is not set; days are numbered from 1
NoDate == 0

\* ------------------------------------------------------------------------
\* Python string helpers
\* ------------------------------------------------------------------------

Min(a, b) == IF a < b THEN a ELSE b

\* the parts of a list of sequences one after the other (pd.concat, "".join)
RECURSIVE Concat(_)
Concat(ps) == IF ps = <<>> THEN <<>> ELSE Head(ps) \o Concat(Tail(ps))

\* https://docs.python.org/3/library/stdtypes.html : `word in text`, scanning
\* from position i.
RECURSIVE find_from(_, _, _)
find_from(s, w, i) ==
    IF i + Len(w) - 1 > Len(s) THEN FALSE
    ELSE IF SubSeq(s, i, i + Len(w) - 1) = w THEN TRUE
    ELSE find_from(s, w, i + 1)

contains(s, w) == find_from(s, w, 1)

\* the characters for which str.isspace() is true; a character that has no
\* escape in a TLA+ string is written as its code point
Whitespace ==
    {" ", "\t", "\n", "\r", "\f", "U+000B", "U+001C", "U+001D", "U+001E",
     "U+001F", "U+0085", "U+00A0", "U+1680", "U+2000", "U+2001", "U+2002",
     "U+2003", "U+2004", "U+2005", "U+2006", "U+2007", "U+2008", "U+2009",
     "U+200A", "U+2028", "U+2029", "U+202F", "U+205F", "U+3000"}

IsSpace(c) == c \in Whitespace

\* str.strip(): drop leading and trailing whitespace.
RECURSIVE lstrip(_)
lstrip(s) == IF s # <<>> /\ IsSpace(Head(s)) THEN lstrip(Tail(s)) ELSE s

RECURSIVE rstrip(_)
rstrip(s) ==
    IF s # <<>> /\ IsSpace(s[Len(s)]) THEN rstrip(SubSeq(s, 1, Len(s) - 1))
    ELSE s

strip(s) == rstrip(lstrip(s))

\* text.replace("!", ".")
replace_bang(s) == [i \in 1..Len(s) |-> IF s[i] = "!" THEN "." ELSE s[i]]

\* s.find(". ", from): the first place at or after from where ". " begins, or
\* 0 when there is none
find_sep(s, from) ==
    LET at == {i \in from..(Len(s) - 1) : s[i] = "." /\ s[i + 1] = " "}
    IN  IF at = {} THEN 0 ELSE CHOOSE i \in at : \A j \in at : i <= j

\* str.split(". "): the piece up to the next ". " cut off, the scan resumed
\* behind it
RECURSIVE split_scan(_, _)
split_scan(s, from) ==
    LET i == find_sep(s, from)
    IN  IF i = 0 THEN <<SubSeq(s, from, Len(s))>>
        ELSE <<SubSeq(s, from, i - 1)>> \o split_scan(s, i + 2)

split_sentences(s) == split_scan(s, 1)

\* ". ".join(parts)
RECURSIVE join_sentences(_)
join_sentences(parts) ==
    IF parts = <<>> THEN <<>>
    ELSE IF Len(parts) = 1 THEN parts[1]
    ELSE parts[1] \o <<".", " ">> \o join_sentences(Tail(parts))

\* ------------------------------------------------------------------------
\* simple_summarize
\* ------------------------------------------------------------------------

MinBodyLen == 30
MinSentenceLen == 15
MaxSummaryLen == 300

\* the fixed marker returned when the body is too short
SUMMARY_UNAVAILABLE == <<"[yoyak bulga (bonmun bujok)]">>

RECURSIVE keep_sentences(_)
keep_sentences(parts) ==
    IF parts = <<>> THEN <<>>
    ELSE LET s == strip(Head(parts))
         IN  (IF Len(s) > MinSentenceLen THEN <<s>> ELSE <<>>)
             \o keep_sentences(Tail(parts))

sentences_of(t) == keep_sentences(split_sentences(replace_bang(t)))

\* faulty variant: the length test made on the text as given, blanks included
simple_summarize_unstripped(t, n) ==
    IF t = <<>> \/ Len(t) < MinBodyLen THEN SUMMARY_UNAVAILABLE
    ELSE LET sentences == sentences_of(t)
         IN  IF Len(sentences) <= n
             THEN IF Len(t) > MaxSummaryLen
                  THEN SubSeq(t, 1, MaxSummaryLen) \o <<".", ".", ".">>
                  ELSE t
             ELSE join_sentences(
                    <<sentences[1]>> \o
                    (IF Len(sentences) > 2
                     THEN <<sentences[(Len(sentences) \div 2) + 1]>>
                     ELSE <<>>))

simple_summarize(t, n) ==
    IF t = <<>> \/ Len(strip(t)) < MinBodyLen THEN SUMMARY_UNAVAILABLE
    ELSE LET sentences == sentences_of(t)
         IN  IF Len(sentences) <= n
             THEN IF Len(t) > MaxSummaryLen
                  THEN SubSeq(t, 1, MaxSummaryLen) \o <<".", ".", ".">>
                  ELSE t
             ELSE join_sentences(
                    <<sentences[1]>> \o
                    (IF Len(sentences) > 2
                     THEN <<sentences[(Len(sentences) \div 2) + 1]>>
                     ELSE <<>>))

\* ------------------------------------------------------------------------
\* simple_sentiment
\* ------------------------------------------------------------------------

positive_words == <<
    <<"joh", "da">>, <<"hul", "ryung">>, <<"seong", "gong">>,
    <<"bal", "jeon">>, <<"hyeok", "sin">>, <<"gae", "seon">>,
    <<"jeung", "ga">>, <<"sang", "seung">>, <<"geung", "jeong">> >>

negative_words == <<
    <<"na", "ppeu", "da">>, <<"mun", "je">>, <<"sil", "pae">>,
    <<"u", "ryeo">>, <<"non", "ran">>, <<"gam", "so">>,
    <<"ha", "rak">>, <<"bu", "jeong">>, <<"wi", "heom">> >>

POSITIVE == "geungjeong"
NEGATIVE == "bujeong"
NEUTRAL == "jungrip"

\* sum(1 for word in words if word in text)
RECURSIVE count_present(_, _)
count_present(words, t) ==
    IF words = <<>> THEN 0
    ELSE (IF contains(t, Head(words)) THEN 1 ELSE 0)
         + count_present(Tail(words), t)

\* faulty variant: every occurrence of a word counted (text.count(word))
RECURSIVE count_occurrences(_, _, _)
count_occurrences(t, w, i) ==
    IF i + Len(w) - 1 > Len(t) THEN 0
    ELSE IF SubSeq(t, i, i + Len(w) - 1) = w
         THEN 1 + count_occurrences(t, w, i + Len(w))
         ELSE count_occurrences(t, w, i + 1)

RECURSIVE count_all(_, _)
count_all(words, t) ==
    IF words = <<>> THEN 0
    ELSE count_occurrences(t, Head(words), 1) + count_all(Tail(words), t)

simple_sentiment_by_occurrence(t) ==
    LET pos_count == count_all(positive_words, t)
        neg_count == count_all(negative_words, t)
    IN  IF pos_count > neg_count THEN POSITIVE
        ELSE IF neg_count > pos_count THEN NEGATIVE
        ELSE NEUTRAL

simple_sentiment(t) ==
    LET pos_count == count_present(positive_words, t)
        neg_count == count_present(negative_words, t)
    IN  IF pos_count > neg_count THEN POSITIVE
        ELSE IF neg_count > pos_count THEN NEGATIVE
        ELSE NEUTRAL

\* ------------------------------------------------------------------------
\* fetch_news
\* ------------------------------------------------------------------------

\* A URL is a sequence of parts: <<u>> is the address u itself, and
\* <<"news.google.com", p, u>> is a Google News address whose query string
\* holds the parameter p with the value u.  NoLink is an entry without link.
NoLink == <<>>

\* A date cell is <<form, a, b>>: <<"rfc822", day, half>> a feed date at the
\* first or second half of a day, <<"ymd", day, 0>> the text of strftime
\* ("%Y-%m-%d"), <<"text", 0, 0>> text that is no date, <<"ts", t, 0>> a
\* pandas Timestamp of t half-days without a zone, <<"tsz", t, 0>> one with
\* a zone (UTC), <<"NaT", 0, 0>> the invalid date.
NoPublished == <<"missing", 0, 0>>
NaT == <<"NaT", 0, 0>>

\* datetime.now().strftime("%Y-%m-%d"); the session begins on day 1
today_ymd(now) == <<"ymd", 1 + (now \div 86400), 0>>

\* 'news.google.com' in original_link
has_google_host(link) == \E i \in 1..Len(link) : link[i] = "news.google.com"

\* 'url=' in original_link: true of any part that ends in "url="
has_url_eq(link) == \E i \in 1..Len(link) : link[i] \in {"url=", "curl="}

\* parse_qs(urlparse(original_link).query): the parameter names of the query
query_params(link) ==
    {IF link[i] = "url=" THEN "url" ELSE "curl" :
        i \in {j \in 1..Len(link) : link[j] \in {"url=", "curl="}}}

\* lines 140-152
resolve_link(original_link) ==
    IF has_google_host(original_link) /\ has_url_eq(original_link)
    THEN IF "url" \in query_params(original_link)
         THEN <<original_link[Len(original_link)]>>
         ELSE original_link
    ELSE original_link

\* entry.title and entry.link raise AttributeError when the entry lacks them
raises(entry) == entry.title = None \/ entry.link = NoLink

\* lines 135-179: the row built from one entry (the columns derived from the
\* body text alone are left out)
article_of(keyword, entry, now) ==
    [keyword |-> keyword,
     title   |-> entry.title,
     link    |-> resolve_link(entry.link),
     date    |-> IF entry.published = NoPublished THEN today_ymd(now)
                 ELSE entry.published]

\* faulty variant: the loop left at the first entry that raises (break for continue)
RECURSIVE parse_entries_break(_, _, _)
parse_entries_break(keyword, entries, now) ==
    IF entries = <<>> THEN <<>>
    ELSE IF raises(Head(entries)) THEN <<>>
    ELSE <<article_of(keyword, Head(entries), now)>>
         \o parse_entries_break(keyword, Tail(entries), now)

\* lines 133-182: for entry in ...: try ... except Exception: continue
RECURSIVE parse_entries(_, _, _)
parse_entries(keyword, entries, now) ==
    IF entries = <<>> THEN <<>>
    ELSE IF raises(Head(entries))
         THEN parse_entries(keyword, Tail(entries), now)
         ELSE <<article_of(keyword, Head(entries), now)>>
              \o parse_entries(keyword, Tail(entries), now)

\* faulty variant: the slice forgotten, every entry of the feed processed
first_entries_all(entries, max_items) == entries

\* feed.entries[:max_items]
first_entries(entries, max_items) ==
    SubSeq(entries, 1, Min(max_items, Len(entries)))

\* A response of the network: requests.get raised (timeout, transport
\* error), or it returned a status and a body that parses to entries.
OK == 200

\* lines 121-187: the body of fetch_news, run on a cache miss
fetch_news_body(keyword, lang, max_items, response, now) ==
    IF response.raised THEN <<>>
    ELSE IF response.status # OK THEN <<>>
    ELSE parse_entries(keyword, first_entries(response.entries, max_items), now)

\* lines 181, 186: the body of fetch_news comes to st.warning when one of
\* the entries it processes raises, and to st.error when the request raised.
\* The path of a status other than 200 (lines 127-128) has no st.* call.
reaches_st_call(max_items, response) ==
    \/ response.raised
    \/ /\ response.status = OK
       /\ \E i \in 1..Len(first_entries(response.entries, max_items)) :
                raises(response.entries[i])

\* ------------------------------------------------------------------------
\* @st.cache_data(ttl=3600) around fetch_news
\* ------------------------------------------------------------------------

TTL == 3600

\* faulty variant: the stored results told apart by keyword alone
cache_key_keyword_only(keyword, lang, max_items) == <<keyword, "ko", 1>>

\* the arguments of the call are the key of its stored result
cache_key(keyword, lang, max_items) == <<keyword, lang, max_items>>

\* a result stored less than ttl seconds ago is served again
cache_hit(c, key, now) == key \in DOMAIN c /\ now < c[key].at + TTL

store(c, key, value, now) ==
    [k \in DOMAIN c \cup {key} |->
        IF k = key THEN [at |-> now, value |-> value] ELSE c[k]]

\* One call of the decorated fetch_news on the store c: the value returned,
\* the store afterwards, and whether the body ran (a request was sent).
fetch_news(c, keyword, lang, max_items, response, now) ==
    LET key == cache_key(keyword, lang, max_items)
    IN  IF cache_hit(c, key, now)
        THEN [value |-> c[key].value, cache |-> c, requested |-> FALSE]
        ELSE LET v == fetch_news_body(keyword, lang, max_items, response, now)
             IN  [value |-> v, cache |-> store(c, key, v, now),
                  requested |-> TRUE]

\* ------------------------------------------------------------------------
\* The collection run (lines 190-214) and the date filter (lines 217-225)
\* ------------------------------------------------------------------------

\* what the log holds for a call that sent no request
NoResponse == [raised |-> FALSE, status |-> 0, entries |-> <<>>]

\* lines 122-128, 186-187: the request raised or the status is not 200
request_failed(response) == response.raised \/ response.status # OK

\* what the log of a run holds for a call: whether its request failed, and
\* how
failure_of(requested, response) ==
    IF requested /\ request_failed(response)
    THEN IF response.raised THEN "raised" ELSE "status"
    ELSE "none"

\* lines 202-203: if not df.empty: df_list.append(df)
append_result(df_list, df) ==
    IF df # <<>> THEN Append(df_list, df) ELSE df_list

\* faulty variant: the loop over the keywords left when a keyword brings nothing
loop_done_at_empty_result(keywords, calls) ==
    \/ Len(calls) = Len(keywords)
    \/ calls # <<>> /\ calls[Len(calls)].value = <<>>

\* line 200: for i, keyword in enumerate(selected_keywords) has run for every
\* keyword of the list
loop_done(keywords, calls) == Len(calls) = Len(keywords)

\* faulty variant: the last row of each link kept (keep="last")
RECURSIVE drop_duplicates_keep_last(_)
drop_duplicates_keep_last(rows) ==
    IF rows = <<>> THEN <<>>
    ELSE IF \E j \in 2..Len(rows) : rows[j].link = Head(rows).link
         THEN drop_duplicates_keep_last(Tail(rows))
         ELSE <<Head(rows)>> \o drop_duplicates_keep_last(Tail(rows))

\* DataFrame.drop_duplicates(subset=[link]): the first row of each link kept
RECURSIVE drop_duplicates_from(_, _)
drop_duplicates_from(rows, seen) ==
    IF rows = <<>> THEN <<>>
    ELSE IF Head(rows).link \in seen
         THEN drop_duplicates_from(Tail(rows), seen)
         ELSE <<Head(rows)>>
              \o drop_duplicates_from(Tail(rows), seen \cup {Head(rows).link})

drop_duplicates(rows) == drop_duplicates_from(rows, {})

\* No version of pandas is pinned. Before 2.0 pd.to_datetime parses every
\* value of a column of text on its own; from 2.0 it parses the whole column
\* with the one format it infers from the first value. The version is that
\* of the installation and stays the same through a session.
PandasVersions == {"1.x", "2.x"}

\* One value parsed on its own (errors="coerce"): a feed date carries its
\* zone ("... GMT") and becomes a zone-aware timestamp, the default date
\* written by fetch_news has no zone and becomes a naive one, anything
\* unreadable becomes NaT; time is counted in half days
to_datetime(cell) ==
    CASE cell[1] = "rfc822"         -> <<"tsz", 2 * cell[2] + cell[3], 0>>
      [] cell[1] = "ymd"            -> <<"ts", 2 * cell[2], 0>>
      [] cell[1] \in {"ts", "tsz"}  -> cell
      [] OTHER                      -> NaT

\* pd.to_datetime(start_date): midnight of the chosen day, without a zone
date_to_ts(day) == 2 * day

\* One value of text parsed with the format inferred from a value of the
\* form given. In the format of a feed date ("%a, %d %b %Y %H:%M:%S GMT")
\* the zone is a literal, so the timestamp has no zone; a value in another
\* form does not match the format and errors="coerce" makes it NaT.
to_datetime_format(cell, form) ==
    CASE cell[1] # form   -> NaT
      [] form = "rfc822"  -> <<"ts", 2 * cell[2] + cell[3], 0>>
      [] form = "ymd"     -> <<"ts", 2 * cell[2], 0>>
      [] OTHER            -> NaT

\* the date column holds zone-aware timestamps
tz_aware(rows) == \E i \in 1..Len(rows) : rows[i].date[1] = "tsz"

\* the date column holds timestamps without a zone
tz_naive(rows) == \E i \in 1..Len(rows) : rows[i].date[1] = "ts"

\* line 221 on a frame with rows: pd.to_datetime of the date column, and
\* whether it raised.
\*  - A column of timestamps (an earlier run parsed it) is returned as it is;
\*    but a column that holds naive and zone-aware timestamps side by side is
\*    a column of objects, and parsing it again raises ValueError.
\*  - A column of text is parsed with the format of its first value from
\*    pandas 2.0, when that value is a date; before 2.0, or with no format to
\*    infer, every value is parsed on its own.
parse_dates(rows, pandas_version) ==
    IF rows[1].date[1] \in {"ts", "tsz", "NaT"}
    THEN [raised |-> tz_aware(rows) /\ tz_naive(rows), rows |-> rows]
    ELSE IF pandas_version = "2.x" /\ rows[1].date[1] \in {"ymd", "rfc822"}
    THEN [raised |-> FALSE,
          rows |-> [i \in 1..Len(rows) |->
                      [rows[i] EXCEPT !.date =
                          to_datetime_format(rows[i].date, rows[1].date[1])]]]
    ELSE [raised |-> FALSE,
          rows |-> [i \in 1..Len(rows) |->
                      [rows[i] EXCEPT !.date = to_datetime(rows[i].date)]]]

\* comparisons with NaT are False
ts_ge(cell, t) == cell[1] = "ts" /\ cell[2] >= t

ts_le(cell, t) == cell[1] = "ts" /\ cell[2] <= t

\* lines 222-225 on a column without a zone
date_filter(rows, s, e) ==
    LET after_start == IF s # NoDate
                       THEN SelectSeq(rows,
                                LAMBDA r : ts_ge(r.date, date_to_ts(s)))
                       ELSE rows
    IN  IF e # NoDate
        THEN SelectSeq(after_start, LAMBDA r : ts_le(r.date, date_to_ts(e)))
        ELSE after_start

\* lines 217-225: the frame of the session parsed in place and filtered.
\* The result names the exception that ended the script run, the frame the
\* session holds afterwards and the rows the script goes on to display.
\*  - line 220: an empty frame is neither parsed nor filtered;
\*  - line 221 raises ValueError: the frame stays as it was;
\*  - lines 223, 225: the comparison of a zone-aware timestamp with the
\*    naive timestamp of a sidebar date raises TypeError, after line 221 has
\*    written the parsed column into the session's frame.
filtered(df, s, e, pandas_version) ==
    IF df = <<>>
    THEN [error |-> "none", news_df |-> df, shown |-> <<>>]
    ELSE LET parsed == parse_dates(df, pandas_version)
         IN  IF parsed.raised
             THEN [error |-> "ValueError", news_df |-> df, shown |-> <<>>]
             ELSE IF (s # NoDate \/ e # NoDate) /\ tz_aware(parsed.rows)
             THEN [error |-> "TypeError", news_df |-> parsed.rows,
                   shown |-> <<>>]
             ELSE [error |-> "none", news_df |-> parsed.rows,
                   shown |-> date_filter(parsed.rows, s, e)]

\* line 194
lang_code_of_option(lang_option) ==
    IF lang_option = "hangugeo" THEN "ko" ELSE "en"

\* line 209, pd.concat(df_list, ignore_index=True): the rows of the frames
\* one after the other, with the index labels 0, 1, 2, ... The labels stay
\* with the rows through drop_duplicates and the date filter, and line 248
\* names the bookmark button of a row after its label.
concat_ignore_index(df_list) ==
    LET rows == Concat(df_list)
    IN  [i \in 1..Len(rows) |->
            [keyword |-> rows[i].keyword, title |-> rows[i].title,
             link |-> rows[i].link, date |-> rows[i].date, index |-> i - 1]]

\* faulty variant: the rows of the run added to the rows the session already held
news_df_extended(old_df, df_list) ==
    drop_duplicates(concat_ignore_index(<<old_df>> \o df_list))

\* lines 208-214: the frame the run stores in the session, whatever frame
\* old_df the session held
news_df_of_run(old_df, df_list) ==
    IF df_list # <<>> THEN drop_duplicates(concat_ignore_index(df_list))
    ELSE <<>>

\* faulty variant: the link appended without looking at the list
bookmark_always(marks, link) == Append(marks, link)

\* lines 248-250
bookmark(marks, link) ==
    IF \E i \in 1..Len(marks) : marks[i] = link THEN marks
    ELSE Append(marks, link)

\* ------------------------------------------------------------------------
\* State shared by the specifications below
\* ------------------------------------------------------------------------

NoRun == [kind |-> "none"]

\* the session before anything was collected (st.session_state is empty)
SessionInit ==
    /\ news_df = <<>>
    /\ bookmarks = <<>>
    /\ start_date = NoDate
    /\ end_date = NoDate
    /\ cache = <<>>
    /\ clock = 0
    /\ shown = <<>>
    /\ raw_df = <<>>
    /\ fetched = <<>>
    /\ last = NoRun

SessionUnchanged ==
    UNCHANGED <<news_df, bookmarks, start_date, end_date, cache, clock, shown,
                pandas, raw_df, fetched, last>>

Rep(c, n) == [i \in 1..n |-> c]

SeqsUpTo(S, n) == UNION {[1..k -> S] : k \in 0..n}

\* ------------------------------------------------------------------------
\* SpecSentiment: simple_sentiment applied to every text of SentimentTexts
\* ------------------------------------------------------------------------

MaxLen == 6

Syllables == {"seong", "gong", "mun", "je", "eun"}

SentimentTexts == SeqsUpTo(Syllables, MaxLen)

InitSentiment ==
    /\ pc = "call"
    /\ arg \in {[text |-> t] : t \in SentimentTexts}
    /\ out = None
    /\ pandas = None
    /\ SessionInit

call_simple_sentiment ==
    /\ pc = "call"
    /\ out' = simple_sentiment(arg.text)
    /\ pc' = "done"
    /\ UNCHANGED arg
    /\ SessionUnchanged

NextSentiment == call_simple_sentiment

SpecSentiment == InitSentiment /\ [][NextSentiment]_vars

\* the words of a list that occur somewhere in t
WordsPresent(words, t) ==
    {k \in 1..Len(words) :
        \E i \in 1..Len(t) :
            /\ i + Len(words[k]) - 1 <= Len(t)
            /\ \A j \in 1..Len(words[k]) : t[i + j - 1] = words[k][j]}

\* the places of t where a word of a list occurs
WordOccurrences(words, t) ==
    {<<k, i>> \in (1..Len(words)) \X (1..Len(t)) :
        /\ i + Len(words[k]) - 1 <= Len(t)
        /\ \A j \in 1..Len(words[k]) : t[i + j - 1] = words[k][j]}

Majority(p, n) ==
    IF p > n THEN POSITIVE ELSE IF n > p THEN NEGATIVE ELSE NEUTRAL

\* C8 as stated: the occurrences of the listed words are counted, every
\* occurrence adding one, and the larger count decides the label.
C8_SentimentCountsOccurrences ==
    pc = "done" =>
        out = Majority(Cardinality(WordOccurrences(positive_words, arg.text)),
                       Cardinality(WordOccurrences(negative_words, arg.text)))

\* C8 amended: the label is decided by how many different words of the
\* positive list occur in the text against how many different words of the
\* negative list occur in it, a repeated word counting once; positive when
\* strictly more positive words, negative when strictly more negative words,
\* neutral on a tie.
C8_SentimentCountsWordsPresent ==
    pc = "done" =>
        out = Majority(Cardinality(WordsPresent(positive_words, arg.text)),
                       Cardinality(WordsPresent(negative_words, arg.text)))

\* a text where a positive word occurs twice and a negative word once, and
\* the label is neutral
C8_Witness ==
    /\ pc = "done"
    /\ arg.text = <<"seong", "gong", "seong", "gong", "mun", "je">>
    /\ out = NEUTRAL

\* ------------------------------------------------------------------------
\* SpecSummarize: simple_summarize applied to every text of SummarizeTexts
\* ------------------------------------------------------------------------

MaxPieces == 4
MaxTarget == 2

\* building blocks of the texts: a sentence long enough to be kept, a long
\* sentence closed by "! ", a short sentence, a long word without an end, a
\* bare "!", and a run of whitespace (blanks, newlines, no-break spaces)
Pieces == {
    Rep("a", 16) \o <<".", " ">>,
    Rep("c", 150) \o <<"!", " ">>,
    <<"\n">> \o Rep("e", 15) \o <<".", " ">>,
    Rep("d", 16),
    <<"!">>,
    Rep(" ", 5) \o Rep("\n", 5) \o Rep("U+00A0", 5) }

SummarizeTexts == {Concat(ps) : ps \in SeqsUpTo(Pieces, MaxPieces)}

InitSummarize ==
    /\ pc = "call"
    /\ arg \in {[text |-> t, num_sent |-> n] :
                    t \in SummarizeTexts, n \in 1..MaxTarget}
    /\ out = None
    /\ pandas = None
    /\ SessionInit

call_simple_summarize ==
    /\ pc = "call"
    /\ out' = simple_summarize(arg.text, arg.num_sent)
    /\ pc' = "done"
    /\ UNCHANGED arg
    /\ SessionUnchanged

NextSummarize == call_simple_summarize

SpecSummarize == InitSummarize /\ [][NextSummarize]_vars

\* the text without its leading and trailing whitespace
Trimmed(t) ==
    LET inked == {i \in 1..Len(t) : t[i] \notin Whitespace}
    IN  IF inked = {} THEN <<>>
        ELSE SubSeq(t, CHOOSE i \in inked : \A j \in inked : i <= j,
                       CHOOSE i \in inked : \A j \in inked : i >= j)

\* the fragments between the ". " separators of t with "!" read as "."
Fragments(t) ==
    LET r == [i \in 1..Len(t) |-> IF t[i] = "!" THEN "." ELSE t[i]]
        seps == {i \in 1..(Len(r) - 1) : r[i] = "." /\ r[i + 1] = " "}
        nth(k) == CHOOSE p \in seps : Cardinality({q \in seps : q < p}) = k - 1
        n == Cardinality(seps)
    IN  [k \in 1..(n + 1) |->
            SubSeq(r, IF k = 1 THEN 1 ELSE nth(k - 1) + 2,
                      IF k = n + 1 THEN Len(r) ELSE nth(k) - 1)]

LongEnough(f) == Len(f) > 15

\* the candidates as stated: the fragments longer than 15 characters
LongFragments(t) == SelectSeq(Fragments(t), LongEnough)

\* the candidates of the code: the fragments that are longer than 15
\* characters without their leading and trailing whitespace, so trimmed
Candidates(t) ==
    SelectSeq([k \in 1..Len(Fragments(t)) |-> Trimmed(Fragments(t)[k])],
              LongEnough)

\* the summary of a text that is not too short, from its candidates c
SummaryFrom(c, t, target) ==
    IF Len(c) <= target
    THEN IF Len(t) > 300
         THEN [i \in 1..303 |-> IF i <= 300 THEN t[i] ELSE "."]
         ELSE t
    ELSE IF Len(c) > 2
         THEN c[1] \o <<".", " ">> \o c[(Len(c) \div 2) + 1]
         ELSE c[1]

\* the sentences of a summary: its parts between ". "
SentenceCount(t) == Len(Fragments(t))

\* C9 as stated: the insufficient-content marker is returned exactly for
\* texts shorter than 30 characters; every other text is summarised from
\* the fragments longer than 15 characters.
C9_MarkerForShortText ==
    pc = "done" =>
        out = IF Len(arg.text) < 30 THEN SUMMARY_UNAVAILABLE
              ELSE SummaryFrom(LongFragments(arg.text), arg.text,
                               arg.num_sent)

\* C9 amended: the marker is returned for a text whose length without its
\* leading and trailing whitespace is below 30; otherwise the candidates are
\* the fragments that are longer than 15 characters without their leading
\* and trailing whitespace, and with no more candidates than the target the
\* result is the text cut to 300 characters (an ellipsis added only when it
\* was longer), with more candidates than the target it is the first
\* candidate, followed by the candidate at index floor(count/2) when there
\* are more than two candidates, so it has no more than two sentences.
C9_MarkerForShortTrimmedText ==
    pc = "done" =>
        /\ out = IF Len(Trimmed(arg.text)) < 30 THEN SUMMARY_UNAVAILABLE
                 ELSE SummaryFrom(Candidates(arg.text), arg.text,
                                  arg.num_sent)
        /\ (/\ Len(Trimmed(arg.text)) >= 30
            /\ Len(Candidates(arg.text)) > arg.num_sent)
                => SentenceCount(out) <= 2

\* a text of 30 characters or more whose trimmed length is below 30 has
\* been given the marker
C9_Witness ==
    /\ pc = "done"
    /\ Len(arg.text) >= 30
    /\ Len(Trimmed(arg.text)) < 30
    /\ out = SUMMARY_UNAVAILABLE

\* ------------------------------------------------------------------------
\* SpecFetch: the body of fetch_news applied to every response of
\* FetchResponses
\* ------------------------------------------------------------------------

MaxFeed == 3
MaxItems == 3

FetchEntries ==
    [title : {"T", None},
     link : {NoLink, <<"a.com/1">>, <<"a.com/2">>,
             <<"news.google.com", "url=", "a.com/1">>},
     published : {NoPublished, <<"rfc822", 1, 0>>}]
    \cup {[title |-> "T", link |-> <<"news.google.com", "curl=", "a.com/2">>,
           published |-> <<"text", 0, 0>>]}

Raised == [raised |-> TRUE, status |-> 0, entries |-> <<>>]

FetchResponses ==
    {Raised} \cup
    [raised : {FALSE}, status : {OK, 500},
     entries : SeqsUpTo(FetchEntries, MaxFeed)]

InitFetch ==
    /\ pc = "call"
    /\ arg \in [keyword : {"AI"}, lang : {"ko"}, max_items : 1..MaxItems,
                response : FetchResponses, now : {0}]
    /\ out = None
    /\ pandas = None
    /\ SessionInit

call_fetch_news ==
    /\ pc = "call"
    /\ out' = fetch_news_body(arg.keyword, arg.lang, arg.max_items,
                              arg.response, arg.now)
    /\ pc' = "done"
    /\ UNCHANGED arg
    /\ SessionUnchanged

NextFetch == call_fetch_news

SpecFetch == InitFetch /\ [][NextFetch]_vars

\* the response carried a feed
Delivered(r) == ~r.raised /\ r.status = 200

\* the entry has what a row needs
Complete(e) == e.title # None /\ Len(e.link) > 0

\* the row an entry is turned into
RowOf(keyword, e) ==
    [keyword |-> keyword,
     title |-> e.title,
     link |-> IF Len(e.link) = 3 /\ e.link[1] = "news.google.com"
                 /\ e.link[2] = "url="
              THEN <<e.link[3]>> ELSE e.link,
     date |-> IF e.published[1] = "missing" THEN <<"ymd", 1, 0>>
              ELSE e.published]

\* the places of the complete entries among the first cap entries
CompleteWithin(es, cap) == {i \in 1..Len(es) : i <= cap /\ Complete(es[i])}

NthOf(S, k) == CHOOSE p \in S : Cardinality({q \in S : q < p}) = k - 1

\* C2: fetch_news returns at most cap articles, and they are the rows of the
\* complete entries among the first cap entries of the feed, in feed order.
C2_AtMostCapInFeedOrder ==
    pc = "done" =>
        /\ Len(out) <= arg.max_items
        /\ Delivered(arg.response) =>
            LET es == arg.response.entries
                ok == CompleteWithin(es, arg.max_items)
            IN  out = [k \in 1..Cardinality(ok) |->
                        RowOf(arg.keyword, es[NthOf(ok, k)])]

\* a feed longer than the cap, all entries complete, cut to cap rows
C2_Witness ==
    /\ pc = "done"
    /\ Delivered(arg.response)
    /\ Len(arg.response.entries) > arg.max_items
    /\ \A i \in 1..Len(arg.response.entries) :
            Complete(arg.response.entries[i])
    /\ Len(out) = arg.max_items
    /\ arg.max_items >= 2
    /\ out[1].link # out[2].link

\* C4: an entry that fails is the only one skipped: every complete entry
\* among the first cap entries, before or after a failing one, has its row in
\* the result.
C4_FailingEntrySkippedAlone ==
    (pc = "done" /\ Delivered(arg.response)) =>
        LET es == arg.response.entries
        IN  \A i \in 1..Len(es) :
                (i <= arg.max_items /\ Complete(es[i])) =>
                    \E j \in 1..Len(out) : out[j] = RowOf(arg.keyword, es[i])

\* a failing entry between two complete entries, all within the cap, and
\* both complete entries returned
C4_Witness ==
    /\ pc = "done"
    /\ Delivered(arg.response)
    /\ arg.max_items >= 3
    /\ Len(arg.response.entries) = 3
    /\ Complete(arg.response.entries[1])
    /\ ~Complete(arg.response.entries[2])
    /\ Complete(arg.response.entries[3])
    /\ arg.response.entries[1].link # arg.response.entries[3].link
    /\ Len(out) = 2

\* ------------------------------------------------------------------------
\* History of the requests sent, kept beside the store
\* ------------------------------------------------------------------------

\* fetched[key] is the last request sent with the arguments key: when it was
\* sent, whether the body of fetch_news ran to its return statement, whether
\* the call returned to the script, and the result of the body
NoPrior == [at |-> 0, completed |-> FALSE, returned |-> FALSE, value |-> <<>>]

sent(f, key, now, completed, returned, value) ==
    [k \in DOMAIN f \cup {key} |->
        IF k = key
        THEN [at |-> now, completed |-> completed, returned |-> returned,
              value |-> value]
        ELSE f[k]]

\* ------------------------------------------------------------------------
\* SpecCache: single calls of fetch_news as time passes
\* ------------------------------------------------------------------------

MaxTicks == 2
TickSeconds == 1800

FeedA ==
    [raised |-> FALSE, status |-> OK, entries |-> <<
        [title |-> "T1", link |-> <<"a.com/1">>,
         published |-> <<"rfc822", 0, 1>>],
        [title |-> "T2", link |-> <<"news.google.com", "url=", "a.com/2">>,
         published |-> <<"rfc822", 1, 1>>] >>]

FeedB ==
    [raised |-> FALSE, status |-> OK, entries |-> <<
        [title |-> "T3", link |-> <<"a.com/2">>,
         published |-> NoPublished],
        [title |-> None, link |-> <<"a.com/1">>,
         published |-> NoPublished],
        [title |-> "T4", link |-> <<"a.com/2">>,
         published |-> <<"text", 0, 0>>] >>]

\* the server answers with an error status; the body it sends parses to
\* entries all the same
Unavailable == [raised |-> FALSE, status |-> 500, entries |-> FeedA.entries]

\* one triple of arguments and the three triples that differ from it in one
\* argument
CacheCalls ==
    {<<"AI", "ko", 1>>, <<"robot", "ko", 1>>, <<"AI", "en", 1>>,
     <<"AI", "ko", 2>>}

CacheResponses == {Raised, FeedA}

InitCache ==
    /\ pc = "idle"
    /\ arg = None
    /\ out = None
    /\ pandas = None
    /\ SessionInit

\* a call of fetch_news that returns: served from the store, or the body
\* run to its return and the result stored
call_cached_fetch_news ==
    \E k \in CacheCalls, response \in CacheResponses :
        LET r == fetch_news(cache, k[1], k[2], k[3], response, clock)
        IN  /\ cache' = r.cache
            /\ fetched' = IF r.requested
                          THEN sent(fetched, k, clock, TRUE, TRUE, r.value)
                          ELSE fetched
            /\ last' = [kind |-> "fetch", key |-> k, now |-> clock,
                        response |-> response,
                        requested |-> r.requested, value |-> r.value,
                        had_prior |-> k \in DOMAIN fetched,
                        prior |-> IF k \in DOMAIN fetched THEN fetched[k]
                                  ELSE NoPrior]
            /\ UNCHANGED <<pc, arg, out, news_df, bookmarks, start_date,
                           end_date, clock, shown, pandas, raw_df>>

\* A call of fetch_news that sent its request and was ended by Streamlit
\* before it returned to the script. The exception that ends a script run is
\* not an Exception, so no except clause catches it.
\*  - In the body, at st.warning (line 181) or st.error (line 186): nothing
\*    is stored.
\*  - After the body, where the decorator (show_spinner=True, line 118) takes
\*    its spinner away: the result of the body has been stored.
\* A call ended before it sent a request, or while it was served from the
\* store, leaves everything as it was.
interrupted_fetch_news ==
    \E k \in CacheCalls, response \in CacheResponses,
       at \in {"body", "spinner"} :
        LET r == fetch_news(cache, k[1], k[2], k[3], response, clock)
        IN  /\ r.requested
            /\ at = "body" => reaches_st_call(k[3], response)
            /\ cache' = IF at = "body" THEN cache ELSE r.cache
            /\ fetched' = IF at = "body"
                          THEN sent(fetched, k, clock, FALSE, FALSE, <<>>)
                          ELSE sent(fetched, k, clock, TRUE, FALSE, r.value)
            /\ last' = [kind |-> "stopped"]
            /\ UNCHANGED <<pc, arg, out, news_df, bookmarks, start_date,
                           end_date, clock, shown, pandas, raw_df>>

tick ==
    /\ clock < MaxTicks * TickSeconds
    /\ clock' = clock + TickSeconds
    /\ UNCHANGED <<pc, arg, out, news_df, bookmarks, start_date, end_date,
                   cache, shown, pandas, raw_df, fetched, last>>

NextCache == call_cached_fetch_news \/ interrupted_fetch_news \/ tick

SpecCache == InitCache /\ [][NextCache]_vars

MaxKeywords == 2

KEYWORDS == {"AI", "robot"}

\* the multiselect choice followed by the extra keywords typed in, which may
\* repeat a chosen keyword
SelectedLists == SeqsUpTo(KEYWORDS, MaxKeywords)

LangOptions == {"hangugeo"}

DefaultItems == 3

SessionResponses == {Raised, Unavailable, FeedA, FeedB}

\* lines 28-29: a sidebar date is not set or is day 1, the day the default
\* date of a row falls on
DateChoices == {NoDate, 1}

Init ==
    /\ pc = "idle"
    /\ arg = None
    /\ out = None
    /\ pandas \in PandasVersions
    /\ SessionInit

\* The page while and after a script run is stopped. The rows the earlier
\* run displayed stay on the page, with their bookmark buttons, while a run
\* is under way; a run ended by a touched widget leaves them there for the
\* script run of that widget, a run ended by Stop leaves an empty page.
page_after_stop(page) == {page, <<>>}

\* lines 190-198: the collect button pressed. With no keyword selected the
\* script warns and goes on to lines 217-225; otherwise it enters the loop.
press_collect ==
    /\ pc = "idle"
    /\ \E keywords \in SelectedLists, lang_option \in LangOptions :
        IF keywords = <<>>
        THEN LET view == filtered(news_df, start_date, end_date, pandas)
             IN  /\ news_df' = view.news_df
                 /\ shown' = view.shown
                 /\ last' = [kind |-> "collect", keywords |-> <<>>,
                             calls |-> <<>>, had_rows |-> news_df # <<>>,
                             error |-> view.error]
                 /\ UNCHANGED <<pc, arg, out>>
        ELSE /\ pc' = "loop"
             /\ arg' = [keywords |-> keywords,
                        lang |-> lang_code_of_option(lang_option),
                        max_items |-> DefaultItems]
             /\ out' = [df_list |-> <<>>, calls |-> <<>>]
             /\ last' = [kind |-> "collecting"]
             /\ UNCHANGED <<news_df, shown>>
    /\ UNCHANGED <<bookmarks, start_date, end_date, cache, clock, pandas,
                   raw_df, fetched>>

\* lines 200-203: one turn of the loop, for the next keyword of the list,
\* in which fetch_news returns. Nothing else of the session runs between
\* the request, the store of the result and the return.
fetch_keyword ==
    /\ pc = "loop"
    /\ ~loop_done(arg.keywords, out.calls)
    /\ LET kw == arg.keywords[Len(out.calls) + 1]
           key == cache_key(kw, arg.lang, arg.max_items)
       IN  \E response \in IF cache_hit(cache, key, clock) THEN {NoResponse}
                           ELSE SessionResponses :
            LET r == fetch_news(cache, kw, arg.lang, arg.max_items, response,
                                clock)
            IN  /\ cache' = r.cache
                /\ out' = [df_list |-> append_result(out.df_list, r.value),
                           calls |-> Append(out.calls,
                                [keyword |-> kw, lang |-> arg.lang,
                                 max_items |-> arg.max_items,
                                 requested |-> r.requested,
                                 failure |-> failure_of(r.requested,
                                                        response),
                                 value |-> r.value])]
    /\ UNCHANGED <<pc, arg, news_df, bookmarks, start_date, end_date, clock,
                   shown, pandas, raw_df, fetched, last>>

\* lines 181, 186: a turn of the loop in which Streamlit ends the script run
\* inside fetch_news, at st.warning or st.error. The request was sent;
\* fetch_news does not return, nothing is stored, the run is over and the
\* session's frame is the old one.
stop_in_fetch_news ==
    /\ pc = "loop"
    /\ ~loop_done(arg.keywords, out.calls)
    /\ LET kw == arg.keywords[Len(out.calls) + 1]
       IN  /\ ~cache_hit(cache, cache_key(kw, arg.lang, arg.max_items), clock)
           /\ \E response \in SessionResponses :
                    reaches_st_call(arg.max_items, response)
    /\ shown' \in page_after_stop(shown)
    /\ last' = [kind |-> "stopped", at |-> "fetch_news"]
    /\ pc' = "idle"
    /\ arg' = None
    /\ out' = None
    /\ UNCHANGED <<news_df, bookmarks, start_date, end_date, cache, clock,
                   pandas, raw_df, fetched>>

\* lines 206-225: the loop is over; the frame of the run is stored in the
\* session and the script goes on to the date filter
finish_collect ==
    /\ pc = "loop"
    /\ loop_done(arg.keywords, out.calls)
    /\ LET stored == news_df_of_run(news_df, out.df_list)
           view == filtered(stored, start_date, end_date, pandas)
       IN  /\ raw_df' = stored
           /\ news_df' = view.news_df
           /\ shown' = view.shown
           /\ last' = [kind |-> "collect", keywords |-> arg.keywords,
                       calls |-> out.calls, had_rows |-> news_df # <<>>,
                       error |-> view.error]
    /\ pc' = "idle"
    /\ arg' = None
    /\ out' = None
    /\ UNCHANGED <<bookmarks, start_date, end_date, cache, clock, pandas,
                   fetched>>

\* Streamlit ends a script run at one of its st.* calls when the user
\* touches a widget or presses Stop: in the run outside fetch_news (lines
\* 195, 198, 204, 206, 213, and the st.* calls the decorator of fetch_news
\* makes around the call), where the session's frame is still the old one,
\* or at line 211, where line 210 has stored the frame of the run and
\* nothing of it has been parsed or displayed.
stop_collect ==
    /\ pc = "loop"
    /\ \E stored \in BOOLEAN :
        /\ stored => (loop_done(arg.keywords, out.calls) /\ out.df_list # <<>>)
        /\ news_df' = IF stored THEN news_df_of_run(news_df, out.df_list)
                      ELSE news_df
        /\ raw_df' = IF stored THEN news_df_of_run(news_df, out.df_list)
                     ELSE raw_df
        /\ shown' \in page_after_stop(shown)
        /\ last' = [kind |-> "stopped",
                    at |-> IF stored THEN "line 211" ELSE "loop"]
    /\ pc' = "idle"
    /\ arg' = None
    /\ out' = None
    /\ UNCHANGED <<bookmarks, start_date, end_date, cache, clock, pandas,
                   fetched>>

\* lines 28-29, 217-225: a script run after a sidebar date was changed
change_dates ==
    /\ pc = "idle"
    /\ \E s \in DateChoices, e \in DateChoices :
        LET view == filtered(news_df, s, e, pandas)
        IN  /\ <<s, e>> # <<start_date, end_date>>
            /\ start_date' = s
            /\ end_date' = e
            /\ news_df' = view.news_df
            /\ shown' = view.shown
            /\ last' = [kind |-> "dates", error |-> view.error]
    /\ UNCHANGED <<pc, arg, out, bookmarks, cache, clock, pandas, raw_df,
                   fetched>>

\* lines 217-251: a bookmark button of the page pressed. The button is the
\* one of an index label (key bookmark_<label>), put there by the script run
\* that displayed the page. The script runs again from the top on the frame
\* the session holds now; st.button at line 248 is True for the row of that
\* label among the rows this run displays, and lines 249-250 run for it. No
\* handler runs when this run displays no row of that label, or when line
\* 221, 223 or 225 raised.
press_bookmark ==
    /\ pc = "idle"
    /\ \E i \in 1..Len(shown) :
        LET view == filtered(news_df, start_date, end_date, pandas)
            hits == {j \in 1..Len(view.shown) :
                        view.shown[j].index = shown[i].index}
            clicked == view.error = "none" /\ hits # {}
            link == view.shown[CHOOSE j \in hits : TRUE].link
        IN  /\ bookmarks' = IF clicked THEN bookmark(bookmarks, link)
                            ELSE bookmarks
            /\ news_df' = view.news_df
            /\ shown' = view.shown
            /\ last' = [kind |-> "bookmark", error |-> view.error,
                        had |-> /\ clicked
                                /\ \E j \in 1..Len(bookmarks) :
                                        bookmarks[j] = link]
    /\ UNCHANGED <<pc, arg, out, start_date, end_date, cache, clock, pandas,
                   raw_df, fetched>>

Next ==
    \/ press_collect
    \/ fetch_keyword
    \/ stop_in_fetch_news
    \/ finish_collect
    \/ stop_collect
    \/ change_dates
    \/ press_bookmark
    \/ tick

Spec == Init /\ [][Next]_vars

\* ------------------------------------------------------------------------
\* Properties of the session
\* ------------------------------------------------------------------------

\* the last script run that came to its end was a collection run over at
\* least one keyword
Collected == last.kind = "collect" /\ last.keywords # <<>>

\* the per-keyword results of the last collection run, one after the other
RunRows == Concat([i \in 1..Len(last.calls) |-> last.calls[i].value])

\* call i of the last collection run sent a request and the request failed
Failed(i) == last.calls[i].failure # "none"

\* what identifies an article of the ArticleSet, its date cell left aside
Article(row) ==
    [keyword |-> row.keyword, title |-> row.title, link |-> row.link]

Articles(rows) == [i \in 1..Len(rows) |-> Article(rows[i])]

\* the rows of cs whose link no earlier row of cs has, in order
FirstOfEachLink(cs) ==
    LET keep == {k \in 1..Len(cs) : \A j \in 1..(k - 1) : cs[j].link # cs[k].link}
    IN  [n \in 1..Cardinality(keep) |-> Article(cs[NthOf(keep, n)])]

\* C1: after a collection run the ArticleSet holds every link at most once,
\* every link some keyword returned is in it, and the row kept for a link is
\* the first one with that link in the concatenation of the per-keyword
\* results, so it comes from the earliest keyword of the list that returned it.
C1_FirstOccurrenceKept ==
    /\ \A i, j \in 1..Len(news_df) :
            i # j => news_df[i].link # news_df[j].link
    /\ Collected =>
        /\ \A k \in 1..Len(RunRows) :
                \E i \in 1..Len(news_df) : news_df[i].link = RunRows[k].link
        /\ \A i \in 1..Len(news_df) :
                \E k \in 1..Len(RunRows) :
                    /\ RunRows[k].link = news_df[i].link
                    /\ \A j \in 1..(k - 1) : RunRows[j].link # RunRows[k].link
                    /\ news_df[i].keyword = RunRows[k].keyword
                    /\ news_df[i].title = RunRows[k].title

\* two different keywords returned the same link and the row kept is the one
\* of the keyword that came first
C1_Witness ==
    /\ Collected
    /\ Len(last.calls) = 2
    /\ last.calls[1].keyword # last.calls[2].keyword
    /\ \E a \in 1..Len(last.calls[1].value), b \in 1..Len(last.calls[2].value) :
            /\ last.calls[1].value[a].link = last.calls[2].value[b].link
            /\ last.calls[1].value[a].title # last.calls[2].value[b].title
            /\ \E i \in 1..Len(news_df) :
                    /\ news_df[i].link = last.calls[1].value[a].link
                    /\ news_df[i].keyword = last.calls[1].keyword

\* the results of the calls cs whose request did not fail
UnfailedRows(cs) ==
    Concat([i \in 1..Len(cs) |->
                IF cs[i].failure # "none" THEN <<>> ELSE cs[i].value])

\* C3: a request that fails (it raises, or the status is not 200) gives the
\* empty result for its keyword and does not end the run:
\*  - a turn of the loop fetches the next keyword of the list and, when the
\*    request failed, records the empty result, whatever the response held;
\*  - while keywords are left the next one can be fetched, whatever the
\*    earlier requests did;
\*  - a run ends before the last keyword only where Streamlit stops the
\*    script, never because a request failed;
\*  - the ArticleSet of a run that came to its end is the deduplicated union
\*    of the results of the keywords whose request did not fail.
C3_FailureContainedToKeyword ==
    [][/\ (pc = "loop" /\ Len(out.calls) < Len(arg.keywords))
            => ENABLED fetch_keyword
       /\ (pc = "loop" /\ pc' = "loop" /\ out' # out) =>
            LET n == Len(out.calls) + 1
            IN  /\ n <= Len(arg.keywords)
                /\ Len(out'.calls) = n
                /\ SubSeq(out'.calls, 1, n - 1) = out.calls
                /\ out'.calls[n].keyword = arg.keywords[n]
                /\ out'.calls[n].failure # "none"
                        => out'.calls[n].value = <<>>
       /\ (pc = "loop" /\ pc' # "loop") =>
            \/ last'.kind = "stopped"
            \/ /\ last'.kind = "collect"
               /\ last'.keywords = arg.keywords
               /\ last'.calls = out.calls
               /\ Len(last'.calls) = Len(last'.keywords)
               /\ Articles(news_df') = FirstOfEachLink(UnfailedRows(out.calls))
      ]_vars

\* the server answered the first keyword with an error status and a body
\* full of entries; the keyword got the empty result, and the rows of the
\* second keyword were collected all the same
C3_Witness ==
    /\ Collected
    /\ Len(last.calls) = 2
    /\ last.calls[1].failure = "status"
    /\ last.calls[1].value = <<>>
    /\ last.calls[2].requested
    /\ ~Failed(2)
    /\ last.calls[2].value # <<>>
    /\ Len(news_df) = Len(last.calls[2].value)
    /\ \E k \in DOMAIN cache : cache[k].value = <<>>

\* the instant a date cell of text names when it is read on its own: a feed
\* date or the default date of line 154; other text names none
Readable(cell) == cell[1] \in {"rfc822", "ymd"}

Instant(cell) ==
    IF cell[1] = "rfc822" THEN 2 * cell[2] + cell[3] ELSE 2 * cell[2]

\* the date is readable and lies within the sidebar dates that are set
\* (a day chosen in the sidebar is its midnight)
InRange(cell, s, e) ==
    /\ s # NoDate => (Readable(cell) /\ Instant(cell) >= 2 * s)
    /\ e # NoDate => (Readable(cell) /\ Instant(cell) <= 2 * e)

\* C5: after a script run the articles displayed are exactly the articles of
\* the ArticleSet whose date d satisfies L <= d <= U, each bound applied
\* only when set; an article whose date cannot be read is displayed only
\* when no bound is set. The date of an article is the one the feed gave it
\* (raw_df keeps the text).
C5_DateRangeInclusive ==
    last.kind \in {"collect", "dates", "bookmark"} =>
        /\ Len(raw_df) = Len(news_df)
        /\ LET keep == {i \in 1..Len(news_df) :
                            InRange(raw_df[i].date, start_date, end_date)}
           IN  Articles(shown) =
                    [n \in 1..Cardinality(keep) |->
                        Article(news_df[NthOf(keep, n)])]

\* With the format of pandas 2.0 the rows displayed are the rows of the
\* session's frame whose timestamp, as line 221 left it, lies within the
\* sidebar dates: lines 222-225 filter what line 221 has parsed.
FilteredByParsedTimestamp ==
    (pandas = "2.x" /\ last.kind \in {"collect", "dates", "bookmark"}) =>
        LET within(cell) ==
                /\ start_date # NoDate
                      => (cell[1] = "ts" /\ cell[2] >= 2 * start_date)
                /\ end_date # NoDate
                      => (cell[1] = "ts" /\ cell[2] <= 2 * end_date)
            keep == {i \in 1..Len(news_df) : within(news_df[i].date)}
        IN  shown = [n \in 1..Cardinality(keep) |-> news_df[NthOf(keep, n)]]

\* C7 as stated: after any collection run, a run with no keyword selected
\* included, the ArticleSet holds only rows of that run, and it is empty when
\* the run brought no row.
C7_RebuiltOnEveryPress ==
    last.kind = "collect" =>
        /\ \A i \in 1..Len(news_df) :
                \E k \in 1..Len(RunRows) :
                    Article(news_df[i]) = Article(RunRows[k])
        /\ RunRows = <<>> => news_df = <<>>

\* the date cell is text that line 221 has not parsed yet
IsText(cell) == cell[1] \notin {"ts", "tsz", "NaT"}

\* C7 amended: after a collection run with at least one keyword selected the
\* ArticleSet holds only rows of that run, and it is empty when every keyword
\* brought nothing; a press of the button with no keyword selected leaves the
\* ArticleSet as it was: the same rows in the same order, every cell as it
\* was but for a date still held as text, which the script run parses.
C7_RebuiltWhenKeywordsSelected ==
    [][last'.kind = "collect" =>
        IF last'.keywords = <<>>
        THEN /\ Len(news_df') = Len(news_df)
             /\ \A i \in 1..Len(news_df) :
                    /\ Article(news_df'[i]) = Article(news_df[i])
                    /\ DOMAIN news_df'[i] = DOMAIN news_df[i]
                    /\ \/ news_df'[i].date = news_df[i].date
                       \/ IsText(news_df[i].date) /\ ~IsText(news_df'[i].date)
        ELSE LET rows == Concat([i \in 1..Len(last'.calls) |->
                                    last'.calls[i].value])
             IN  /\ \A i \in 1..Len(news_df') :
                        \E k \in 1..Len(rows) :
                            Article(news_df'[i]) = Article(rows[k])
                 /\ rows = <<>> => news_df' = <<>>]_vars

\* the ArticleSet held rows, and a run over a keyword that brought nothing
\* left it empty
C7_Witness ==
    /\ Collected
    /\ last.had_rows
    /\ RunRows = <<>>
    /\ news_df = <<>>

\* C10: the bookmark list never holds a link twice; a click on a link that
\* is bookmarked leaves the list as it is; no step of a collection run
\* changes the list.
C10_BookmarksUniqueAndKept ==
    [][/\ \A i, j \in 1..Len(bookmarks') :
            i # j => bookmarks'[i] # bookmarks'[j]
       /\ (pc = "loop" \/ pc' = "loop" \/ last'.kind \in {"collect", "collecting", "stopped"})
            => bookmarks' = bookmarks
       /\ (last'.kind = "bookmark" /\ last'.had) => bookmarks' = bookmarks]_vars

\* a second click on a bookmarked link, and a bookmarked link that the
\* ArticleSet no longer holds
C10_Witness ==
    /\ last.kind = "bookmark"
    /\ last.had
    /\ Len(bookmarks) = 2
    /\ \E b \in 1..Len(bookmarks) :
            \A i \in 1..Len(news_df) : news_df[i].link # bookmarks[b]

====
